---------------------------- MODULE Spec2Model ----------------------------
(***************************************************************************)
(* Signature Injection Engine: the field placement engine of the React     *)
(* front end (App, PDFViewer, DraggableField) and the render pipeline of   *)
(* the Express back end (POST /sign-pdf, pdfUtils).                        *)
(*                                                                         *)
(* Numbers.  The front end works on integers: every pointer position and   *)
(* the container rectangle are taken from a pixel grid on which            *)
(* (pixel / dimension) * 100 is a whole number, so the quotient the code   *)
(* computes in floating point is exact and Percent below is that quotient. *)
(* The back end works on exact rationals (records [n, d]); IEEE rounding   *)
(* of the JavaScript Number type is not modelled.                          *)
(***************************************************************************)
EXTENDS Integers, Sequences, FiniteSets, TLC

VARIABLES
    fields,      \* App: const [fields, setFields] = useState([])
    ui,          \* DraggableField local state, one entry per rendered field
    listeners,   \* document-level mousemove/mouseup listeners, in registration order
    now,         \* Date.now()
    lastCall,    \* the last setFields call, release after a move, or click
    modal,       \* App: showSignatureModal and activeFieldId
    readers,     \* FileReader loads in flight, each with the onload closure
    documentId,  \* App: documentId, set and cleared together with pdfData
    cleared,     \* history: ids of the fields a change of document removed
    pin,         \* argument of the pure function under check
    pout,        \* its result
    req,         \* POST /sign-pdf: req.body
    pc,          \* where the request handler is
    idx,         \* index of the field the render loop is at
    draws,       \* the draw calls made on firstPage, in order
    res,         \* the response sent
    jobs,        \* POST /sign-pdf requests past their render loop
    files,       \* the uploads directory: file name -> bytes
    db           \* the documents collection: signedPdfHash and signedPdfUrl

frontVars == <<fields, ui, listeners, now, lastCall, modal, readers,
               documentId, cleared>>
pureVars == <<pin, pout>>
renderVars == <<req, pc, idx, draws, res>>
storeVars == <<jobs, files, db>>
backVars == <<req, pc, idx, draws, res, jobs, files, db>>
vars == <<fields, ui, listeners, now, lastCall, modal, readers,
          documentId, cleared,
          pin, pout, req, pc, idx, draws, res, jobs, files, db>>

(***************************************************************************)
(* Bounds of the model.                                                    *)
(***************************************************************************)
MaxFields == 1
MaxNow == 1

Null == "null"

Max(a, b) == IF a >= b THEN a ELSE b
Min(a, b) == IF a <= b THEN a ELSE b

(***************************************************************************)
(* The preview container, viewerRef.current.getBoundingClientRect().       *)
(***************************************************************************)
ContainerRect == [left |-> 20, top |-> 10, width |-> 200, height |-> 100]

\* (pixels / dimension) * 100
PercentFixed(px, dim) == (px * 100) \div 200
Percent(px, dim) == (px * 100) \div dim

\* pixels of a percentage of a dimension (CSS left: x%, width: w%)
Pixels(pct, dim) == (pct * dim) \div 100

(***************************************************************************)
(* Field types.  "checkbox" stands for any type outside the five known.    *)
(***************************************************************************)
KnownTypes == {"signature", "text", "image", "date", "radio"}
FieldTypes == KnownTypes \cup {"checkbox"}

(***************************************************************************)
(* A field value is null or a string; a string is kept as the sequence of  *)
(* its pieces between commas, which is what String.split(',') returns.     *)
(***************************************************************************)
NullValue == [isNull |-> TRUE, parts |-> << >>]
Str(parts) == [isNull |-> FALSE, parts |-> parts]

\* a JSON request body can also carry a number where a string is expected
NumValue(k) == [isNull |-> FALSE, parts |-> << >>, num |-> k]

\* typeof v === 'string'
IsString(v) == ~v.isNull /\ "num" \notin DOMAIN v

\* !value: null, the empty string and the number 0 are falsy
Falsy(v) ==
    \/ v.isNull
    \/ IsString(v) /\ v.parts = << "" >>
    \/ "num" \in DOMAIN v /\ v.num = 0

NullOptions == [isNull |-> TRUE, items |-> << >>]
DefaultOptions == [isNull |-> FALSE, items |-> <<"Option 1", "Option 2", "Option 3">>]

\* PDFViewer.handleDrop: fieldSizes[fieldType] || { width: 20, height: 10 }
fieldSizes(fieldType) ==
    CASE fieldType = "signature" -> [width |-> 25, height |-> 15]
      [] fieldType = "text"      -> [width |-> 20, height |-> 8]
      [] fieldType = "image"     -> [width |-> 15, height |-> 15]
      [] fieldType = "date"      -> [width |-> 18, height |-> 8]
      [] fieldType = "radio"     -> [width |-> 12, height |-> 12]
      [] OTHER                   -> [width |-> 20, height |-> 10]

\* the upper clamp of handleDrop: Math.min(x, 100 - size)
DropClamp(pct, size) == Min(pct, 100 - size)

\* PDFViewer.handleDrop: the field handed to onAddField
handleDrop(e, fieldType, rect, clock) ==
    LET x == Percent(e.clientX - rect.left, rect.width)
        y == Percent(e.clientY - rect.top, rect.height)
        size == fieldSizes(fieldType)
    IN  [id      |-> clock,
         type    |-> fieldType,
         x       |-> DropClamp(x, size.width),
         y       |-> DropClamp(y, size.height),
         width   |-> size.width,
         height  |-> size.height,
         value   |-> IF fieldType = "radio" THEN Str(<< "option1" >>) ELSE NullValue,
         options |-> IF fieldType = "radio" THEN DefaultOptions ELSE NullOptions]


(***************************************************************************)
(* App: the three field-set operations.  Each one replaces the state by a  *)
(* value computed from the `fields` its closure captured (fs).             *)
(***************************************************************************)
\* setFields([...fields, field])
addField(fs, field) == Append(fs, field)

\* { ...f, ...updates, type: 'text' }: an update that also rewrites the type
updateFieldRetyping(fs, fieldId, updates) ==
    [i \in 1..Len(fs) |->
        IF fs[i].id = fieldId
        THEN [k \in DOMAIN fs[i] |->
                 IF k = "type" THEN "text"
                 ELSE IF k \in DOMAIN updates THEN updates[k] ELSE fs[i][k]]
        ELSE fs[i]]
\* setFields(fields.map(f => f.id === fieldId ? { ...f, ...updates } : f))
updateField(fs, fieldId, updates) ==
    [i \in 1..Len(fs) |->
        IF fs[i].id = fieldId
        THEN [k \in DOMAIN fs[i] |->
                 IF k \in DOMAIN updates THEN updates[k] ELSE fs[i][k]]
        ELSE fs[i]]

\* fields.splice(fields.findIndex(f => f.id === fieldId), 1): one element
\* goes, the last one when no id matches
deleteFieldSplice(fs, fieldId) ==
    LET hits == {i \in 1..Len(fs) : fs[i].id = fieldId}
        at == IF hits = {} THEN Len(fs)
              ELSE CHOOSE i \in hits : \A j \in hits : i <= j
    IN  [j \in 1..Max(0, Len(fs) - 1) |-> IF j < at THEN fs[j] ELSE fs[j + 1]]
\* setFields(fields.filter(f => f.id !== fieldId))
deleteField(fs, fieldId) == SelectSeq(fs, LAMBDA f : f.id # fieldId)

(***************************************************************************)
(* React keeps one DraggableField per key={field.id}; fields with equal    *)
(* ids are told apart by their rank among the fields of that id.           *)
(***************************************************************************)
Key(fs, j) == <<fs[j].id, Cardinality({i \in 1..j : fs[i].id = fs[j].id})>>

HasKey(fs, k) == \E i \in 1..Len(fs) : Key(fs, i) = k

IndexOfKey(fs, k) == CHOOSE i \in 1..Len(fs) : Key(fs, i) = k

\* field.value || ''
OrEmpty(v) == IF Falsy(v) THEN Str(<< "" >>) ELSE v

\* the useState initial values of a DraggableField mounted for field f
InitialUi(f) == [isDragging |-> FALSE, isResizing |-> FALSE,
                 isEditing |-> FALSE, editValue |-> OrEmpty(f.value),
                 dragStart |-> [x |-> 0, y |-> 0]]

\* the local state of the components after a render of the field set nf:
\* a component whose key was rendered before keeps its state, a new one mounts
Reconcile(fs, us, nf) ==
    [j \in 1..Len(nf) |->
        IF HasKey(fs, Key(nf, j)) THEN us[IndexOfKey(fs, Key(nf, j))]
        ELSE InitialUi(nf[j])]

(***************************************************************************)
(* DraggableField: the two useEffect hooks.  After a render, an effect     *)
(* whose dependencies changed removes the listeners it registered and, if  *)
(* its flag is set, registers the handlers of this render, which capture   *)
(* the props and state of this render (field, dragStart, and App's fields  *)
(* through onUpdate).                                                      *)
(***************************************************************************)
\* [isDragging, dragStart, field.x, field.y, field.width, field.height]
DragDeps(f, u) == <<u.isDragging, u.dragStart, f.x, f.y, f.width, f.height>>

\* [isResizing]
ResizeDeps(f, u) == <<u.isResizing>>

DepsOf(kind, f, u) == IF kind = "drag" THEN DragDeps(f, u) ELSE ResizeDeps(f, u)

\* does the effect `kind` of the component with key k run after the render?
EffectRuns(kind, k, fs, us, nf, nu) ==
    LET j == IndexOfKey(nf, k)
    IN  \/ ~HasKey(fs, k)
        \/ DepsOf(kind, fs[IndexOfKey(fs, k)], us[IndexOfKey(fs, k)])
              # DepsOf(kind, nf[j], nu[j])

\* the handlers an effect registers: the closure of the render
Closure(kind, k, nf, nu) ==
    LET j == IndexOfKey(nf, k)
    IN  [kind |-> kind, key |-> k, id |-> nf[j].id,
         dragStart |-> nu[j].dragStart,
         width |-> nf[j].width, height |-> nf[j].height,
         fields |-> nf]

RECURSIVE Registrations(_, _, _, _, _)
\* the listeners added after the render, in component order, the drag effect
\* of a component before its resize effect
Registrations(j, fs, us, nf, nu) ==
    IF j > Len(nf) THEN << >>
    ELSE LET k == Key(nf, j)
             d == IF EffectRuns("drag", k, fs, us, nf, nu) /\ nu[j].isDragging
                  THEN << Closure("drag", k, nf, nu) >> ELSE << >>
             r == IF EffectRuns("resize", k, fs, us, nf, nu) /\ nu[j].isResizing
                  THEN << Closure("resize", k, nf, nu) >> ELSE << >>
         IN  d \o r \o Registrations(j + 1, fs, us, nf, nu)

\* the listener list after the render: cleanups (unmounted components and
\* effects that run again) first, then the new registrations
Effects(ls, fs, us, nf, nu) ==
    SelectSeq(ls, LAMBDA l :
        /\ HasKey(nf, l.key)
        /\ ~EffectRuns(l.kind, l.key, fs, us, nf, nu))
    \o Registrations(1, fs, us, nf, nu)


(***************************************************************************)
(* Pointer events.  Positions are client pixels.  A drop is delivered to   *)
(* the container, so its point lies on the container; mousemove and        *)
(* mouseup are document listeners and see the pointer anywhere.            *)
(***************************************************************************)
Point(px, py) == [clientX |-> px, clientY |-> py]

\* drop points: the container's origin, its middle, its far corner
DropPoints == {Point(20, 10), Point(120, 60), Point(220, 110)}

\* pointer positions of a move: left of and above the container, inside it,
\* right of and below it
MovePoints == {Point(0, 0), Point(120, 60), Point(320, 160)}

\* where on the field body the pointer goes down, from the field's corner
GrabOffsets == {[x |-> 0, y |-> 0], [x |-> 10, y |-> 2]}

\* w-3 h-3: the resize handle is a 12 px square in the bottom-right corner
HandleSize == 12

\* fieldRef.current.getBoundingClientRect(): the field is laid out at
\* left: x%, top: y%, width: w%, height: h% of the container
fieldRect(f, rect) ==
    [left   |-> rect.left + Pixels(f.x, rect.width),
     top    |-> rect.top + Pixels(f.y, rect.height),
     width  |-> Pixels(f.width, rect.width),
     height |-> Pixels(f.height, rect.height)]

\* the container clips its content (overflow-hidden): a point is on screen
OnContainer(px, py, rect) ==
    /\ rect.left <= px /\ px <= rect.left + rect.width
    /\ rect.top <= py /\ py <= rect.top + rect.height

(***************************************************************************)
(* DraggableField.handleMouseMove, as registered by the drag effect: the   *)
(* clamped position it passes to onUpdate.  l is the closure: dragStart    *)
(* and the field (width, height) of the render that registered it.         *)
(***************************************************************************)
BoundNoFloor(pct, size) == Min(pct, 100 - size)
\* Math.max(0, Math.min(percent, 100 - size))
Bound(pct, size) == Max(0, Min(pct, 100 - size))

handleMouseMoveDelta(l, e, parentRect) ==
    LET cur == l.fields[IndexOfKey(l.fields, l.key)]
        newX == e.clientX - parentRect.left - l.dragStart.x
        newY == e.clientY - parentRect.top - l.dragStart.y
        percentX == Percent(newX, parentRect.width)
        percentY == Percent(newY, parentRect.height)
    IN  [x |-> Bound(cur.x + percentX, l.width),
         y |-> Bound(cur.y + percentY, l.height)]
handleMouseMove(l, e, parentRect) ==
    LET newX == e.clientX - parentRect.left - l.dragStart.x
        newY == e.clientY - parentRect.top - l.dragStart.y
        percentX == Percent(newX, parentRect.width)
        percentY == Percent(newY, parentRect.height)
    IN  [x |-> Bound(percentX, l.width), y |-> Bound(percentY, l.height)]

(***************************************************************************)
(* DraggableField.handleResizeMove, as registered by the resize effect:    *)
(* the clamped size it passes to onUpdate.  f is the field as it is laid   *)
(* out now (fieldRef is live).                                             *)
(***************************************************************************)
handleResizeMoveUnclamped(f, e, parentRect) ==
    LET fr == fieldRect(f, parentRect)
    IN  [width  |-> Percent(e.clientX - fr.left, parentRect.width),
         height |-> Percent(e.clientY - fr.top, parentRect.height)]
handleResizeMove(f, e, parentRect) ==
    LET fr == fieldRect(f, parentRect)
        newWidth == Percent(e.clientX - fr.left, parentRect.width)
        newHeight == Percent(e.clientY - fr.top, parentRect.height)
    IN  [width  |-> Max(5, Min(newWidth, 50)),
         height |-> Max(3, Min(newHeight, 30))]

\* the update one registered mousemove listener passes to onUpdate
ListenerUpdate(l, e, live) ==
    IF l.kind = "drag"
    THEN handleMouseMove(l, e, ContainerRect)
    ELSE handleResizeMove(live[IndexOfKey(live, l.key)], e, ContainerRect)

NoCall == [op |-> "none", key |-> <<0, 0>>, keys |-> {}]

\* a handler call on the component with key k that passes no update
Call(op, k) == [op |-> op, key |-> k, keys |-> {}]

\* activeFieldId null: no field id (ids are clock readings, never negative)
NoFieldId == -1

\* useState(false), useState(null)
NoModal == [show |-> FALSE, activeFieldId |-> NoFieldId]

(***************************************************************************)
(* The render that follows an event: component state is carried over by    *)
(* key and the effects run.                                                *)
(***************************************************************************)
RenderSet(nf, nu, c) ==
    /\ fields' = nf
    /\ ui' = nu
    /\ listeners' = Effects(listeners, fields, ui, nf, nu)
    /\ lastCall' = c
    /\ UNCHANGED <<pureVars, backVars>>

\* {pdfData && <PDFViewer .../>}: the viewer and its fields are on the page
\* only while a PDF is loaded, and the modal's overlay takes every pointer
\* event while it is shown
NoDocument == 0

ViewerTakesEvents == documentId # NoDocument /\ ~modal.show

\* a render in which the document and the clock stay as they are
RenderFields(nf, nu, c) ==
    /\ RenderSet(nf, nu, c)
    /\ UNCHANGED <<now, documentId, cleared>>

Render(nf, nu, c) ==
    /\ RenderFields(nf, nu, c)
    /\ UNCHANGED <<modal, readers>>

(***************************************************************************)
(* Actions of the front end.  The sets an event draws its input from are   *)
(* parameters.                                                             *)
(***************************************************************************)
Tick ==
    /\ now < MaxNow
    /\ now' = now + 1
    /\ UNCHANGED <<fields, ui, listeners, lastCall, modal, readers,
                   documentId, cleared, pureVars, backVars>>

\* PDFViewer onDrop -> handleDrop -> App.addField
DropOf(cap, types, points) ==
    \E t \in types, e \in points :
        /\ Len(fields) < cap
        /\ ViewerTakesEvents
        /\ LET f == handleDrop(e, t, ContainerRect, now)
               nf == addField(fields, f)
           IN  Render(nf, Reconcile(fields, ui, nf), Call("add", Key(nf, Len(nf))))

\* DraggableField onMouseDown on the field body -> handleMouseDown
\* (a mousedown on the resize handle, a button or an input returns at once;
\* initialPos is set and never read)
MouseDownOf(grabs) ==
    \E i \in 1..Len(fields), g \in grabs :
        LET fr == fieldRect(fields[i], ContainerRect)
            e == Point(fr.left + g.x, fr.top + g.y)
            offsetX == e.clientX - fr.left
            offsetY == e.clientY - fr.top
        IN  /\ g.x <= fr.width /\ g.y <= fr.height
            /\ OnContainer(e.clientX, e.clientY, ContainerRect)
            /\ ViewerTakesEvents
            /\ Render(fields,
                      [ui EXCEPT ![i].isDragging = TRUE,
                                 ![i].dragStart = [x |-> offsetX, y |-> offsetY]],
                      NoCall)

\* resize handle onMouseDown -> handleResize
ResizeDown ==
    \E i \in 1..Len(fields) :
        LET fr == fieldRect(fields[i], ContainerRect)
        IN  /\ OnContainer(fr.left + fr.width - HandleSize,
                           fr.top + fr.height - HandleSize, ContainerRect)
            /\ ViewerTakesEvents
            /\ Render(fields, [ui EXCEPT ![i].isResizing = TRUE],
                      NoCall)

\* document mousemove: every registered listener runs, in registration
\* order; each calls setFields with a value computed from the fields its
\* onUpdate captured, so the last call is the one the next render shows
MouseMoveOf(points) ==
    \E e \in points :
        /\ listeners # << >>
        /\ LET last == listeners[Len(listeners)]
               updates == ListenerUpdate(last, e, fields)
               nf == updateField(last.fields, last.id, updates)
           IN  Render(nf, Reconcile(fields, ui, nf),
                      [op |-> IF last.kind = "drag" THEN "pos" ELSE "size",
                       key |-> last.key, keys |-> DOMAIN updates])

\* document mouseup: handleMouseUp / handleResizeEnd of every registered
\* listener clears the flag of its component.  It is recorded as "release"
\* when it comes right after a pointer move that a listener handled.
MouseUp ==
    /\ listeners # << >>
    /\ Render(fields,
              [j \in 1..Len(fields) |->
                  [ui[j] EXCEPT
                     !.isDragging = IF \E n \in 1..Len(listeners) :
                                          /\ listeners[n].kind = "drag"
                                          /\ listeners[n].key = Key(fields, j)
                                    THEN FALSE ELSE @,
                     !.isResizing = IF \E n \in 1..Len(listeners) :
                                          /\ listeners[n].kind = "resize"
                                          /\ listeners[n].key = Key(fields, j)
                                    THEN FALSE ELSE @]],
              IF lastCall.op \in {"pos", "size"}
              THEN Call("release", lastCall.key) ELSE NoCall)

\* delete button onClick -> onDelete(field.id) -> App.deleteField
Delete ==
    \E i \in 1..Len(fields) :
        LET nf == deleteField(fields, fields[i].id)
        IN  /\ ViewerTakesEvents
            /\ Render(nf, Reconcile(fields, ui, nf), Call("delete", Key(fields, i)))

(***************************************************************************)
(* Click, signature capture and value editing.  A click reaches            *)
(* handleClick from the field body or the resize handle; the delete and    *)
(* edit buttons, the text editor, the image label and the select stop the  *)
(* click before it gets there.  While the modal is shown its overlay       *)
(* (fixed inset-0) takes every pointer event aimed at the page.            *)
(***************************************************************************)
ClickTargets == {"body", "resize-handle"}

\* DraggableField.handleClick: is onClick(field.id) called?
handleClickUnguarded(f, u, target) ==
    /\ target \notin {"delete-btn", "edit-btn", "resize-handle"}
    /\ f.type = "signature" /\ Falsy(f.value)
handleClick(f, u, target) ==
    /\ ~(u.isDragging \/ u.isResizing)
    /\ target \notin {"delete-btn", "edit-btn", "resize-handle"}
    /\ f.type = "signature" /\ Falsy(f.value)

\* fields.find(f => f.id === fieldId): the index of the first match, 0 if none
FindById(fs, fieldId) ==
    IF \E i \in 1..Len(fs) : fs[i].id = fieldId
    THEN CHOOSE i \in 1..Len(fs) :
             fs[i].id = fieldId /\ \A j \in 1..(i - 1) : fs[j].id # fieldId
    ELSE 0

\* App.handleFieldClick: the modal state it leaves
handleFieldClick(fs, fieldId, m) ==
    LET at == FindById(fs, fieldId)
    IN  IF at # 0 /\ fs[at].type = "signature" /\ Falsy(fs[at].value)
        THEN [show |-> TRUE, activeFieldId |-> fieldId]
        ELSE m

\* the key of the first component showing a field of this id
KeyOfId(fs, fieldId) ==
    IF FindById(fs, fieldId) = 0 THEN <<0, 0>> ELSE Key(fs, FindById(fs, fieldId))

\* a call of onUpdate(field.id, updates)
UpdateCall(op, k, updates) == [op |-> op, key |-> k, keys |-> DOMAIN updates]

\* canvas.toDataURL('image/png') of the drawn signature
CanvasDataURL == Str(<< "data:image/png;base64", "PNG400x200" >>)
\* event.target.result of FileReader.readAsDataURL
FileDataURL == Str(<< "data:image/jpeg;base64", "JPG30x64" >>)

\* what the user types into the text editor, picks as a date, selects
EditTexts == {"", "Ann"}
DateTexts == {"2026-01-01"}
RadioChoices == {"option2"}

MaxReaders == 1

\* field onClick -> handleClick -> App.handleFieldClick
ClickOf(targets) ==
    \E i \in 1..Len(fields), t \in targets :
        /\ ViewerTakesEvents
        /\ RenderFields(fields, ui, Call("click", Key(fields, i)))
        /\ modal' = IF handleClick(fields[i], ui[i], t)
                    THEN handleFieldClick(fields, fields[i].id, modal)
                    ELSE modal
        /\ UNCHANGED readers

\* SignatureModal close and cancel buttons -> onClose
ModalClose ==
    /\ modal.show
    /\ RenderFields(fields, ui, NoCall)
    /\ modal' = NoModal
    /\ UNCHANGED readers

\* SignatureModal.saveSignature (something has been drawn) -> App.handleSaveSignature
SaveSignature ==
    /\ modal.show
    /\ LET updates == [value |-> CanvasDataURL]
           nf == IF modal.activeFieldId # NoFieldId
                 THEN updateField(fields, modal.activeFieldId, updates)
                 ELSE fields
       IN  RenderFields(nf, Reconcile(fields, ui, nf),
                        UpdateCall("value", KeyOfId(fields, modal.activeFieldId), updates))
    /\ modal' = NoModal
    /\ UNCHANGED readers

\* edit button onClick -> handleEdit (the button is there for text and
\* radio fields that are not being edited)
Edit ==
    \E i \in 1..Len(fields) :
        /\ ViewerTakesEvents
        /\ fields[i].type \in {"text", "radio"}
        /\ ~ui[i].isEditing
        /\ Render(fields,
                  [ui EXCEPT ![i].isEditing = TRUE,
                             ![i].editValue = OrEmpty(fields[i].value)],
                  NoCall)

\* the editor's input onChange -> setEditValue
EditChange ==
    \E i \in 1..Len(fields), v \in EditTexts :
        /\ ViewerTakesEvents
        /\ ui[i].isEditing /\ fields[i].type = "text"
        /\ Render(fields, [ui EXCEPT ![i].editValue = Str(<< v >>)],
                  NoCall)

\* Save button or Enter -> handleSaveEdit
SaveEdit ==
    \E i \in 1..Len(fields) :
        /\ ViewerTakesEvents
        /\ ui[i].isEditing /\ fields[i].type = "text"
        /\ LET updates == [value |-> ui[i].editValue]
               nf == updateField(fields, fields[i].id, updates)
           IN  Render(nf, [Reconcile(fields, ui, nf) EXCEPT ![i].isEditing = FALSE],
                      UpdateCall("value", Key(fields, i), updates))

\* Cancel button or Escape -> handleCancelEdit
CancelEdit ==
    \E i \in 1..Len(fields) :
        /\ ViewerTakesEvents
        /\ ui[i].isEditing /\ fields[i].type = "text"
        /\ Render(fields,
                  [ui EXCEPT ![i].isEditing = FALSE,
                             ![i].editValue = OrEmpty(fields[i].value)],
                  NoCall)

\* date input onChange -> handleDateChange
DateChange ==
    \E i \in 1..Len(fields), v \in DateTexts :
        /\ ViewerTakesEvents
        /\ fields[i].type = "date"
        /\ LET updates == [value |-> Str(<< v >>)]
               nf == updateField(fields, fields[i].id, updates)
           IN  Render(nf, Reconcile(fields, ui, nf),
                      UpdateCall("value", Key(fields, i), updates))

\* select onChange -> handleRadioChange
RadioChange ==
    \E i \in 1..Len(fields), v \in RadioChoices :
        /\ ViewerTakesEvents
        /\ fields[i].type = "radio"
        /\ LET updates == [value |-> Str(<< v >>)]
               nf == updateField(fields, fields[i].id, updates)
           IN  Render(nf, Reconcile(fields, ui, nf),
                      UpdateCall("value", Key(fields, i), updates))

\* file input onChange -> handleImageUpload with an image file: the reader
\* starts, its onload keeps the onUpdate (and so the fields) of this render
ImageUpload ==
    \E i \in 1..Len(fields) :
        /\ ViewerTakesEvents
        /\ fields[i].type = "image" /\ Falsy(fields[i].value)
        /\ Len(readers) < MaxReaders
        /\ readers' = Append(readers, [id |-> fields[i].id, key |-> Key(fields, i),
                                        fields |-> fields])
        /\ RenderFields(fields, ui, NoCall)
        /\ UNCHANGED modal

\* reader.onload -> onUpdate(field.id, { value: event.target.result })
ImageLoaded ==
    /\ readers # << >>
    /\ LET r == Head(readers)
           updates == [value |-> FileDataURL]
           nf == updateField(r.fields, r.id, updates)
       IN  RenderFields(nf, Reconcile(fields, ui, nf),
                        UpdateCall("value", r.key, updates))
    /\ readers' = Tail(readers)
    /\ UNCHANGED modal

Click == ClickOf(ClickTargets)

Drop == DropOf(MaxFields, FieldTypes, DropPoints)
MouseDown == MouseDownOf(GrabOffsets)
MouseMove == MouseMoveOf(MovePoints)

NoArg == [kind |-> "none"]

IdlePure ==
    /\ pin = NoArg
    /\ pout = NoArg

\* no request in flight
NoRequest == [documentId |-> Null, fields |-> << >>]
NoResponse == [status |-> 0, body |-> "none"]

\* no file written; a document not signed yet (both fields undefined, here
\* the empty sequence)
NoFiles == << >>
Unsigned == [signedPdfHash |-> << >>, signedPdfUrl |-> << >>]

IdleStore ==
    /\ jobs = << >>
    /\ files = NoFiles
    /\ db = [d \in {} |-> Unsigned]

IdleBack ==
    /\ req = NoRequest
    /\ pc = "idle"
    /\ idx = 0
    /\ draws = << >>
    /\ res = NoResponse
    /\ IdleStore

\* the App with the given document loaded and no field placed
Editor(d) ==
    /\ fields = << >>
    /\ ui = << >>
    /\ listeners = << >>
    /\ now = 0
    /\ lastCall = NoCall
    /\ modal = NoModal
    /\ readers = << >>
    /\ documentId = d
    /\ cleared = {}

\* the App as constructed: nothing uploaded
IdleFront == Editor(NoDocument)

\* the editor after the first upload (handleUploadSuccess): the viewer is
\* there to drop fields on
Init ==
    /\ Editor(1)
    /\ IdlePure
    /\ IdleBack

Next ==
    \/ Tick
    \/ Drop
    \/ MouseDown
    \/ ResizeDown
    \/ MouseMove
    \/ MouseUp
    \/ Delete

Spec == Init /\ [][Next]_vars

(***************************************************************************)
(* create, as a function of any drop point: the drop action from the empty *)
(* field set, with the pointer also left of, above, right of and below the *)
(* container.                                                              *)
(***************************************************************************)
AnyDropPoints ==
    {Point(px, py) : px \in {0, 20, 100, 160, 220, 260},
                     py \in {0, 10, 40, 80, 110, 130}}

DropAnywhere == DropOf(MaxFields, FieldTypes, AnyDropPoints)

SpecDrop == Init /\ [][DropAnywhere]_vars

(***************************************************************************)
(* The whole editor on one field: placement, click, signature capture and  *)
(* value editing, with the five types of the toolbox, one drop point, one  *)
(* grab point, one pointer position for a move (right of and below the     *)
(* container) and one clock reading.                                       *)
(***************************************************************************)
AppDropPoints == {Point(120, 60)}
AppMovePoints == {Point(320, 160)}
AppGrabOffsets == {[x |-> 0, y |-> 0]}

AppDrop == DropOf(MaxFields, KnownTypes, AppDropPoints)
AppMouseDown == MouseDownOf(AppGrabOffsets)
AppMouseMove == MouseMoveOf(AppMovePoints)

NextApp ==
    \/ AppDrop
    \/ AppMouseDown
    \/ ResizeDown
    \/ AppMouseMove
    \/ MouseUp
    \/ Delete
    \/ Click
    \/ ModalClose
    \/ SaveSignature
    \/ Edit
    \/ EditChange
    \/ SaveEdit
    \/ CancelEdit
    \/ DateChange
    \/ RadioChange
    \/ ImageUpload
    \/ ImageLoaded

SpecApp == Init /\ [][NextApp]_vars

(***************************************************************************)
(* Several fields: drops at the same and at later clock readings, and      *)
(* deletes.                                                                *)
(***************************************************************************)
MaxPairFields == 2

PairDrop == DropOf(MaxPairFields, FieldTypes, DropPoints)

NextPair ==
    \/ Tick
    \/ PairDrop
    \/ Delete

SpecPair == Init /\ [][NextPair]_vars

(***************************************************************************)
(* Claims about the placement engine.                                      *)
(***************************************************************************)
FieldAt(k) == fields[IndexOfKey(fields, k)]

\* C1: in every reachable state every field of the field set lies inside
\* the container: x + width <= 100 and y + height <= 100.
C1_FieldsInsideContainer ==
    \A i \in 1..Len(fields) :
        /\ fields[i].x + fields[i].width <= 100
        /\ fields[i].y + fields[i].height <= 100

C3_DropInsideContainer ==
    \A i \in 1..Len(fields) :
        /\ 0 <= fields[i].x /\ fields[i].x <= 100 - fieldSizes(fields[i].type).width
        /\ 0 <= fields[i].y /\ fields[i].y <= 100 - fieldSizes(fields[i].type).height

C17_DragResizeExclusive ==
    \A i \in 1..Len(fields) : ~(ui[i].isDragging /\ ui[i].isResizing)

(***************************************************************************)
(* Claims about the editor.                                                *)
(***************************************************************************)
\* every field record the next setFields call can be computed from: the
\* current field set and the field sets captured by the registered
\* listeners and by the reader callbacks in flight
HeldFields ==
    {fields[i] : i \in 1..Len(fields)}
    \cup UNION {{listeners[n].fields[i] : i \in 1..Len(listeners[n].fields)} :
                   n \in 1..Len(listeners)}
    \cup UNION {{readers[n].fields[i] : i \in 1..Len(readers[n].fields)} :
                   n \in 1..Len(readers)}

UpdatableAttributes == {"x", "y", "width", "height", "value"}

\* C13: no step gives a field an id or a type other than the ones it was
\* created with (every field of the next field set is the field a drop has
\* just created or has the id and the type of a field held before the
\* step), and every update passed to updateField names only x, y, width,
\* height or value.
C13_IdAndTypeKept ==
    [][/\ \A j \in 1..Len(fields') :
              \/ lastCall'.op = "add" /\ j = Len(fields')
              \/ \E g \in HeldFields :
                     g.id = fields'[j].id /\ g.type = fields'[j].type
       /\ lastCall'.keys \subseteq UpdatableAttributes]_vars

\* a signature field that has been dragged, resized and signed, still with
\* the id and type of its drop
C13_Witness ==
    /\ Len(fields) = 1
    /\ fields[1].type = "signature" /\ fields[1].id = 0
    /\ fields[1].value = CanvasDataURL
    /\ fields[1].width = 50 /\ fields[1].height = 30
    /\ fields[1].x = 50 /\ fields[1].y = 70

\* the fields of the set other than the one a call was made on, and that
\* one without the attributes in `free`
Framed(fs, k, free) ==
    [j \in 1..Len(fs) |->
        IF Key(fs, j) = k
        THEN [a \in (DOMAIN fs[j]) \ free |-> fs[j][a]]
        ELSE fs[j]]

\* C14: in every reachable state the fields of the field set have pairwise
\* different ids, two drops at one clock reading included.
C14_IdsUnique ==
    \A i, j \in 1..Len(fields) : i # j => fields[i].id # fields[j].id

\* C15: a step in which a resize move writes a size leaves x, y, value, type
\* and options of the resized field, and every other field, as they were.
C15_ResizeChangesSizeOnly ==
    [][lastCall'.op = "size" =>
           Framed(fields', lastCall'.key, {"width", "height"})
               = Framed(fields, lastCall'.key, {"width", "height"})]_vars

\* C18: a click on a field right after the release of a drag or a resize of
\* that field does not open the signature modal.
C18_ReleaseClickInert ==
    [][(/\ lastCall.op = "release"
        /\ lastCall'.op = "click"
        /\ lastCall'.key = lastCall.key) => ~modal'.show]_vars

\* C19: the signature modal opens only in a step that is a click on a field
\* of type signature that has no value and is neither dragged nor resized.
C19_ModalOnlyByClick ==
    [][(~modal.show /\ modal'.show) =>
           /\ lastCall'.op = "click"
           /\ HasKey(fields, lastCall'.key)
           /\ LET i == IndexOfKey(fields, lastCall'.key)
              IN  /\ fields[i].type = "signature"
                  /\ Falsy(fields[i].value)
                  /\ ~ui[i].isDragging /\ ~ui[i].isResizing
                  /\ modal'.activeFieldId = fields[i].id]_vars

\* the modal is open on the unset signature field that was clicked
C19_Witness ==
    /\ modal.show
    /\ lastCall.op = "click"
    /\ Len(fields) = 1
    /\ fields[1].type = "signature" /\ Falsy(fields[1].value)
    /\ modal.activeFieldId = fields[1].id

\* C20: no step takes a field that is being edited into the Dragging state.
C20_NoDragWhileEditing ==
    [][\A i \in 1..Len(fields) :
           (/\ ui[i].isEditing /\ ~ui[i].isDragging
            /\ HasKey(fields', Key(fields, i))) =>
               ~ui'[IndexOfKey(fields', Key(fields, i))].isDragging]_vars

\* C21: no step replaces the value a signature or image field holds, as
\* long as the field stays in the set.
C21_CapturedValueKept ==
    [][\A i \in 1..Len(fields) :
           (/\ fields[i].type \in {"signature", "image"}
            /\ ~Falsy(fields[i].value)
            /\ HasKey(fields', Key(fields, i))) =>
               fields'[IndexOfKey(fields', Key(fields, i))].value = fields[i].value]_vars

\* C27: a step that updates a field (position, size or value) neither
\* brings a field into the set nor takes one out: the ids of the set, in
\* order, are the same before and after it.
C27_UpdateKeepsMembers ==
    [][lastCall'.op \in {"pos", "size", "value"} =>
           [j \in 1..Len(fields') |-> fields'[j].id]
               = [j \in 1..Len(fields) |-> fields[j].id]]_vars

\* C29: while the signature modal is shown, activeFieldId is the id of a
\* field of the set that has type signature and no value; while it is not
\* shown, activeFieldId is null.
C29_ActiveFieldIsUnsetSignature ==
    IF modal.show
    THEN \E i \in 1..Len(fields) :
             /\ fields[i].id = modal.activeFieldId
             /\ fields[i].type = "signature"
             /\ Falsy(fields[i].value)
    ELSE modal.activeFieldId = NoFieldId

(***************************************************************************)
(* Back end numbers: exact rationals [n, d] in lowest terms, d > 0.        *)
(***************************************************************************)
Abs(a) == IF a < 0 THEN -a ELSE a

RECURSIVE Gcd(_, _)
Gcd(a, b) == IF b = 0 THEN a ELSE Gcd(b, a % b)

Q(n, d) ==
    LET g == Gcd(Abs(n), Abs(d))
        sgn == IF d < 0 THEN -1 ELSE 1
    IN  [n |-> sgn * (n \div g), d |-> sgn * (d \div g)]

R(k) == [n |-> k, d |-> 1]

Lcm(a, b) == (a \div Gcd(a, b)) * b

RAdd(a, b) ==
    LET l == Lcm(a.d, b.d)
    IN  Q(a.n * (l \div a.d) + b.n * (l \div b.d), l)

RNeg(a) == [n |-> -a.n, d |-> a.d]

RSub(a, b) == RAdd(a, RNeg(b))

RMul(a, b) ==
    LET g1 == Gcd(Abs(a.n), b.d)
        g2 == Gcd(Abs(b.n), a.d)
    IN  Q((a.n \div g1) * (b.n \div g2), (a.d \div g2) * (b.d \div g1))

RDiv(a, b) == RMul(a, Q(b.d, b.n))

RLt(a, b) ==
    LET l == Lcm(a.d, b.d)
    IN  a.n * (l \div a.d) < b.n * (l \div b.d)

RLe(a, b) == ~RLt(b, a)
RGt(a, b) == RLt(b, a)
RGe(a, b) == RLe(b, a)

(***************************************************************************)
(* pdfUtils.convertCoordinates: percentages with a top-left origin to PDF  *)
(* points with a bottom-left origin.                                       *)
(***************************************************************************)
convertCoordinatesNoFlip(field, pdfWidth, pdfHeight) ==
    LET xInPoints == RMul(RDiv(field.x, R(100)), pdfWidth)
        widthInPoints == RMul(RDiv(field.width, R(100)), pdfWidth)
        heightInPoints == RMul(RDiv(field.height, R(100)), pdfHeight)
        yInPoints == RSub(pdfHeight, RMul(RDiv(field.y, R(100)), pdfHeight))
    IN  [x |-> xInPoints, y |-> yInPoints,
         width |-> widthInPoints, height |-> heightInPoints]

convertCoordinatesSwapped(field, pdfWidth, pdfHeight) ==
    LET xInPoints == RMul(RDiv(field.x, R(100)), pdfWidth)
        widthInPoints == RMul(RDiv(field.width, R(100)), pdfHeight)
        heightInPoints == RMul(RDiv(field.height, R(100)), pdfWidth)
        yInPoints == RSub(RSub(pdfHeight, RMul(RDiv(field.y, R(100)), pdfHeight)),
                          heightInPoints)
    IN  [x |-> xInPoints, y |-> yInPoints,
         width |-> widthInPoints, height |-> heightInPoints]

convertCoordinates(field, pdfWidth, pdfHeight) ==
    LET xInPoints == RMul(RDiv(field.x, R(100)), pdfWidth)
        widthInPoints == RMul(RDiv(field.width, R(100)), pdfWidth)
        heightInPoints == RMul(RDiv(field.height, R(100)), pdfHeight)
        yInPoints == RSub(RSub(pdfHeight, RMul(RDiv(field.y, R(100)), pdfHeight)),
                          heightInPoints)
    IN  [x |-> xInPoints, y |-> yInPoints,
         width |-> widthInPoints, height |-> heightInPoints]

(***************************************************************************)
(* pdfUtils.calculateAspectRatioDimensions                                 *)
(***************************************************************************)
calculateAspectRatioDimensionsFill(imageWidth, imageHeight, boxWidth, boxHeight) ==
    LET imageAspect == RDiv(imageWidth, imageHeight)
        boxAspect == RDiv(boxWidth, boxHeight)
        fitWidth == RLt(imageAspect, boxAspect)
        finalWidth == IF fitWidth THEN boxWidth ELSE RMul(boxHeight, imageAspect)
        finalHeight == IF fitWidth THEN RDiv(boxWidth, imageAspect) ELSE boxHeight
    IN  [width |-> finalWidth, height |-> finalHeight,
         offsetX |-> RDiv(RSub(boxWidth, finalWidth), R(2)),
         offsetY |-> RDiv(RSub(boxHeight, finalHeight), R(2))]

calculateAspectRatioDimensionsStretch(imageWidth, imageHeight, boxWidth, boxHeight) ==
    [width |-> boxWidth, height |-> boxHeight, offsetX |-> R(0), offsetY |-> R(0)]

calculateAspectRatioDimensions(imageWidth, imageHeight, boxWidth, boxHeight) ==
    LET imageAspect == RDiv(imageWidth, imageHeight)
        boxAspect == RDiv(boxWidth, boxHeight)
        fitWidth == RGt(imageAspect, boxAspect)
        finalWidth == IF fitWidth THEN boxWidth ELSE RMul(boxHeight, imageAspect)
        finalHeight == IF fitWidth THEN RDiv(boxWidth, imageAspect) ELSE boxHeight
    IN  [width |-> finalWidth, height |-> finalHeight,
         offsetX |-> RDiv(RSub(boxWidth, finalWidth), R(2)),
         offsetY |-> RDiv(RSub(boxHeight, finalHeight), R(2))]

(***************************************************************************)
(* The two pure functions applied to arguments drawn from bounded sets.    *)
(***************************************************************************)
\* percentages a request can carry: whole, fractional, on and off the page
Percentages == {R(0), R(7), R(10), R(20), Q(2489, 100), R(100), R(-5)}

\* sizes in percent
Sizes == {R(5), R(10), R(20), Q(335, 10), R(100)}

\* page sizes in points: the example page, US Letter, A4
PageSizes == {[width |-> R(600), height |-> R(800)],
              [width |-> R(612), height |-> R(792)],
              [width |-> Q(59528, 100), height |-> Q(84189, 100)]}

Geometries ==
    {[x |-> x, y |-> y, width |-> w, height |-> h] :
        x \in {R(0), R(10), Q(2489, 100)}, y \in Percentages,
        w \in {R(20), Q(335, 10)}, h \in Sizes}

\* image and box sizes: wide, tall, square, equal aspect, fractional
Extents == {[width |-> R(400), height |-> R(200)],
            [width |-> R(100), height |-> R(100)],
            [width |-> R(150), height |-> R(90)],
            [width |-> R(30), height |-> R(64)],
            [width |-> Q(1224, 10), height |-> Q(6336, 100)],
            [width |-> R(1), height |-> R(1000)]}

InitConvert ==
    /\ IdleFront
    /\ IdleBack
    /\ pin \in {[kind |-> "convert", field |-> g, page |-> p] :
                   g \in Geometries, p \in PageSizes}
    /\ pout = NoArg

Convert ==
    /\ pin.kind = "convert"
    /\ pout = NoArg
    /\ pout' = [kind |-> "converted",
                coords |-> convertCoordinates(pin.field, pin.page.width,
                                              pin.page.height)]
    /\ UNCHANGED <<frontVars, pin, backVars>>

SpecConvert == InitConvert /\ [][Convert]_vars

InitFit ==
    /\ IdleFront
    /\ IdleBack
    /\ pin \in {[kind |-> "fit", image |-> i, box |-> b] :
                   i \in Extents, b \in Extents \cup
                        {[width |-> g.width, height |-> g.height] : g \in
                            {convertCoordinates(gg, R(600), R(800)) : gg \in
                                {[x |-> R(0), y |-> R(0), width |-> w, height |-> h] :
                                    w \in Sizes, h \in {R(5), R(20)}}}}}
    /\ pout = NoArg

Fit ==
    /\ pin.kind = "fit"
    /\ pout = NoArg
    /\ pout' = [kind |-> "fitted",
                dims |-> calculateAspectRatioDimensions(
                             pin.image.width, pin.image.height,
                             pin.box.width, pin.box.height)]
    /\ UNCHANGED <<frontVars, pin, backVars>>

SpecFit == InitFit /\ [][Fit]_vars

(***************************************************************************)
(* Claims about the coordinate transform and the aspect fit.               *)
(***************************************************************************)
ExampleField == [x |-> R(10), y |-> R(20), width |-> R(20), height |-> R(10)]
ExamplePage == [width |-> R(600), height |-> R(800)]

\* C4: convertCoordinates returns width = field.width/100*pageWidth,
\* height = field.height/100*pageHeight, x = field.x/100*pageWidth and
\* y = pageHeight - field.y/100*pageHeight - height; the field
\* {x:10, y:20, width:20, height:10} on a 600x800 page gives
\* {x:60, y:560, width:120, height:80}.
C4_ConvertFormula ==
    pout.kind = "converted" =>
        LET f == pin.field
            W == pin.page.width
            H == pin.page.height
            c == pout.coords
        IN  /\ RMul(c.width, R(100)) = RMul(f.width, W)
            /\ RMul(c.height, R(100)) = RMul(f.height, H)
            /\ RMul(c.x, R(100)) = RMul(f.x, W)
            /\ RAdd(RAdd(c.y, c.height), RDiv(RMul(f.y, H), R(100))) = H
            /\ (f = ExampleField /\ pin.page = ExamplePage) =>
                  c = [x |-> R(60), y |-> R(560),
                       width |-> R(120), height |-> R(80)]

C4_Witness ==
    /\ pout.kind = "converted"
    /\ pin.field = ExampleField
    /\ pin.page = ExamplePage
    /\ pout.coords.y = R(560)

\* the inverse map of the claim: points back to percentages
InversePercent(c, W, H) ==
    [x      |-> RMul(RDiv(c.x, W), R(100)),
     y      |-> RMul(RDiv(RSub(RSub(H, c.y), c.height), H), R(100)),
     width  |-> RMul(RDiv(c.width, W), R(100)),
     height |-> RMul(RDiv(c.height, H), R(100))]

RMin(a, b) == IF RLe(a, b) THEN a ELSE b

\* pdfUtils.validateFieldCoordinates
\* a comparison with undefined (a property the field lacks) is false
validateFieldCoordinates(field) ==
    /\ {"x", "y", "width", "height"} \subseteq DOMAIN field
    /\ RGe(field.x, R(0)) /\ RLe(field.x, R(100))
    /\ RGe(field.y, R(0)) /\ RLe(field.y, R(100))
    /\ RGt(field.width, R(0)) /\ RLe(field.width, R(100))
    /\ RGt(field.height, R(0)) /\ RLe(field.height, R(100))

\* pdfUtils.base64FromDataURL: the piece after the one comma, or a throw
base64FromDataURL(dataURL) ==
    IF Falsy(dataURL) \/ ~IsString(dataURL) THEN [threw |-> TRUE, data |-> ""]
    ELSE IF Len(dataURL.parts) # 2 THEN [threw |-> TRUE, data |-> ""]
    ELSE [threw |-> FALSE, data |-> dataURL.parts[2]]

\* pdf-lib: which payloads embedPng and embedJpg accept, and the size
\* embeddedImage.scale(1) reports
PngPayloads == {"PNG400x200"}
JpgPayloads == {"JPG30x64"}

imageSize(data) ==
    IF data = "PNG400x200" THEN [width |-> R(400), height |-> R(200)]
    ELSE [width |-> R(30), height |-> R(64)]

\* one draw call on firstPage
Draw(op, i, style, text, x, y, w, h) ==
    [op |-> op, field |-> i, style |-> style, text |-> text,
     x |-> x, y |-> y, w |-> w, h |-> h]

\* parseInt(selectedValue.replace('option', '')): the number at the head of
\* the string, NaN (here -1) when there is none
parseOption(v) ==
    CASE v.parts[1] = "option1" -> 1
      [] v.parts[1] = "option2" -> 2
      [] v.parts[1] = "option3" -> 3
      [] v.parts[1] = "option9" -> 9
      [] v.parts[1] = "option0" -> 0
      [] OTHER -> -1

\* the loop's first statement: if (!field.value && field.type !== 'radio') continue
skipCheckAll(field) == Falsy(field.value)
skipCheck(field) == Falsy(field.value) /\ field.type # "radio"

\* the signature / image branch: decode, embed PNG, fall back to JPG, fit, draw
imageBranchAborts(field, i, coords) ==
    LET b == base64FromDataURL(field.value)
    IN  IF b.threw \/ b.data \notin (PngPayloads \cup JpgPayloads)
        THEN [threw |-> TRUE, draws |-> << >>]
        ELSE LET img == imageSize(b.data)
                 dimensions == calculateAspectRatioDimensions(
                                   img.width, img.height, coords.width, coords.height)
             IN  [threw |-> FALSE,
                  draws |-> << Draw("drawImage", i, "", << >>,
                                    RAdd(coords.x, dimensions.offsetX),
                                    RAdd(coords.y, dimensions.offsetY),
                                    dimensions.width, dimensions.height) >>]

imageBranch(field, i, coords) ==
    LET b == base64FromDataURL(field.value)
    IN  IF b.threw
        THEN \* caught by the branch's own try/catch
             [threw |-> FALSE, draws |-> << >>]
        ELSE IF b.data \notin (PngPayloads \cup JpgPayloads)
        THEN \* embedPng and embedJpg both threw: continue
             [threw |-> FALSE, draws |-> << >>]
        ELSE LET img == imageSize(b.data)
                 dimensions == calculateAspectRatioDimensions(
                                   img.width, img.height, coords.width, coords.height)
             IN  [threw |-> FALSE,
                  draws |-> << Draw("drawImage", i, "", << >>,
                                    RAdd(coords.x, dimensions.offsetX),
                                    RAdd(coords.y, dimensions.offsetY),
                                    dimensions.width, dimensions.height) >>]

textBranch(field, i, coords) ==
    LET textValue == IF Falsy(field.value) THEN << "Text Field" >>
                     ELSE field.value.parts
        fontSize == RMin(RMul(coords.height, Q(6, 10)), R(12))
    IN  [threw |-> FALSE,
         draws |-> << Draw("drawText", i, "", textValue,
                           RAdd(coords.x, R(4)),
                           RSub(RAdd(coords.y, RDiv(coords.height, R(2))),
                                RDiv(fontSize, R(3))),
                           RSub(coords.width, R(8)), fontSize) >>]

\* new Date().toISOString().split('T')[0]
Today == << "2026-01-01" >>

dateBranch(field, i, coords) ==
    LET dateValue == IF Falsy(field.value) THEN Today ELSE field.value.parts
        fontSize == RMin(RMul(coords.height, Q(6, 10)), R(10))
    IN  [threw |-> FALSE,
         draws |-> << Draw("drawText", i, "", dateValue,
                           RAdd(coords.x, R(4)),
                           RSub(RAdd(coords.y, RDiv(coords.height, R(2))),
                                RDiv(fontSize, R(3))),
                           R(0), fontSize) >>]

\* selectedValue.replace is a TypeError when the value is not a string; the
\* error leaves the loop for the handler's catch
radioBranchZeroBased(field, i, coords) ==
    IF ~Falsy(field.value) /\ ~IsString(field.value)
    THEN [threw |-> TRUE, draws |-> << >>]
    ELSE
    LET radioOptions == IF field.options.isNull THEN DefaultOptions.items
                        ELSE field.options.items
        selectedValue == IF Falsy(field.value) THEN Str(<< "option1" >>)
                         ELSE field.value
        valueIndex == parseOption(selectedValue)
        \* radioOptions[valueIndex] || radioOptions[0]: an index outside
        \* the list gives undefined, and an empty label is falsy too
        displayText == IF /\ 0 <= valueIndex /\ valueIndex < Len(radioOptions)
                          /\ radioOptions[valueIndex + 1] # ""
                       THEN << radioOptions[valueIndex + 1] >>
                       ELSE << radioOptions[1] >>
        fontSize == RMin(RMul(coords.height, Q(5, 10)), R(10))
        circleRadius == RMul(RMin(coords.height, coords.width), Q(15, 100))
        circleX == RAdd(RAdd(coords.x, circleRadius), R(4))
        circleY == RAdd(coords.y, RDiv(coords.height, R(2)))
        border == << Draw("drawCircle", i, "border", << >>,
                          circleX, circleY, circleRadius, circleRadius) >>
        inner == IF ~Falsy(field.value)
                 THEN << Draw("drawCircle", i, "fill", << >>, circleX, circleY,
                              RMul(circleRadius, Q(35, 100)),
                              RMul(circleRadius, Q(35, 100))) >>
                 ELSE << >>
        label == << Draw("drawText", i, "", displayText,
                         RAdd(RAdd(coords.x, RMul(circleRadius, R(2))), R(10)),
                         RSub(RAdd(coords.y, RDiv(coords.height, R(2))),
                              RDiv(fontSize, R(3))),
                         RSub(RSub(coords.width, RMul(circleRadius, R(2))), R(15)),
                         fontSize) >>
    IN  [threw |-> FALSE, draws |-> border \o inner \o label]
radioBranch(field, i, coords) ==
    IF ~Falsy(field.value) /\ ~IsString(field.value)
    THEN [threw |-> TRUE, draws |-> << >>]
    ELSE
    LET radioOptions == IF field.options.isNull THEN DefaultOptions.items
                        ELSE field.options.items
        selectedValue == IF Falsy(field.value) THEN Str(<< "option1" >>)
                         ELSE field.value
        valueIndex == parseOption(selectedValue) - 1
        \* radioOptions[valueIndex] || radioOptions[0]: an index outside
        \* the list gives undefined, and an empty label is falsy too
        displayText == IF /\ 0 <= valueIndex /\ valueIndex < Len(radioOptions)
                          /\ radioOptions[valueIndex + 1] # ""
                       THEN << radioOptions[valueIndex + 1] >>
                       ELSE << radioOptions[1] >>
        fontSize == RMin(RMul(coords.height, Q(5, 10)), R(10))
        circleRadius == RMul(RMin(coords.height, coords.width), Q(15, 100))
        circleX == RAdd(RAdd(coords.x, circleRadius), R(4))
        circleY == RAdd(coords.y, RDiv(coords.height, R(2)))
        border == << Draw("drawCircle", i, "border", << >>,
                          circleX, circleY, circleRadius, circleRadius) >>
        inner == IF ~Falsy(field.value)
                 THEN << Draw("drawCircle", i, "fill", << >>, circleX, circleY,
                              RMul(circleRadius, Q(35, 100)),
                              RMul(circleRadius, Q(35, 100))) >>
                 ELSE << >>
        label == << Draw("drawText", i, "", displayText,
                         RAdd(RAdd(coords.x, RMul(circleRadius, R(2))), R(10)),
                         RSub(RAdd(coords.y, RDiv(coords.height, R(2))),
                              RDiv(fontSize, R(3))),
                         RSub(RSub(coords.width, RMul(circleRadius, R(2))), R(15)),
                         fontSize) >>
    IN  [threw |-> FALSE, draws |-> border \o inner \o label]

\* one iteration of `for (const field of fields)`: the draw calls it makes,
\* and whether it threw out of the loop
processField(field, i, pdfWidth, pdfHeight) ==
    IF skipCheck(field) THEN [threw |-> FALSE, draws |-> << >>]
    ELSE LET coords == convertCoordinates(field, pdfWidth, pdfHeight)
         IN  CASE field.type \in {"signature", "image"} -> imageBranch(field, i, coords)
               [] field.type = "text"  -> textBranch(field, i, coords)
               [] field.type = "date"  -> dateBranch(field, i, coords)
               [] field.type = "radio" -> radioBranch(field, i, coords)
               [] OTHER -> [threw |-> FALSE, draws |-> << >>]

\* models/Document.js: what document.save() validates of document.fields
schemaAccepts(field) == field.type \in KnownTypes

\* the stored documents: id -> size of the first page of the original PDF
Documents == [doc1 |-> [width |-> R(600), height |-> R(800)]]

DocumentExists(id) == id \in DOMAIN Documents

(***************************************************************************)
(* The request handler, one action per stretch between two awaits.         *)
(***************************************************************************)
Respond(status, body) ==
    /\ res' = [status |-> status, body |-> body]
    /\ pc' = "done"

\* lines 106-124: the structural validation and the coordinate validation
SignValidate ==
    /\ pc = "start"
    /\ IF req.documentId = Null \/ Len(req.fields) = 0
       THEN /\ Respond(400, "Missing documentId or fields")
            /\ UNCHANGED <<req, idx, draws>>
       ELSE IF \E i \in 1..Len(req.fields) : ~validateFieldCoordinates(req.fields[i])
       THEN /\ Respond(400, "Invalid coordinates")
            /\ UNCHANGED <<req, idx, draws>>
       ELSE /\ pc' = "find"
            /\ UNCHANGED <<req, idx, draws, res>>
    /\ UNCHANGED <<frontVars, pureVars, storeVars>>

\* lines 127-140: find the document, load the PDF, take the first page
SignFind ==
    /\ pc = "find"
    /\ IF ~DocumentExists(req.documentId)
       THEN /\ Respond(404, "Document not found")
            /\ UNCHANGED <<req, idx, draws>>
       ELSE /\ pc' = "loop"
            /\ idx' = 1
            /\ UNCHANGED <<req, draws, res>>
    /\ UNCHANGED <<frontVars, pureVars, storeVars>>

\* lines 147-275: one field of the loop
SignField ==
    /\ pc = "loop"
    /\ idx <= Len(req.fields)
    /\ LET page == Documents[req.documentId]
           r == processField(req.fields[idx], idx, page.width, page.height)
       IN  IF r.threw
           THEN /\ Respond(500, "error")
                /\ UNCHANGED <<req, idx, draws>>
           ELSE /\ draws' = draws \o r.draws
                /\ idx' = idx + 1
                /\ UNCHANGED <<req, pc, res>>
    /\ UNCHANGED <<frontVars, pureVars, storeVars>>

\* lines 277-301: save the PDF, store hash, url and fields, send the file
SignSave ==
    /\ pc = "loop"
    /\ idx > Len(req.fields)
    /\ IF \A i \in 1..Len(req.fields) : schemaAccepts(req.fields[i])
       THEN Respond(200, "pdf")
       ELSE Respond(500, "error")
    /\ UNCHANGED <<req, idx, draws>>
    /\ UNCHANGED <<frontVars, pureVars, storeVars>>

(***************************************************************************)
(* Requests.                                                               *)
(***************************************************************************)
MaxReqFields == 2

PngURL == Str(<< "data:image/png;base64", "PNG400x200" >>)
JpgURL == Str(<< "data:image/jpeg;base64", "JPG30x64" >>)
BadBytesURL == Str(<< "data:image/png;base64", "Zm9v" >>)
NoCommaURL == Str(<< "not-a-data-url" >>)

ReqValues == {NullValue, Str(<< "" >>), Str(<< "option2" >>),
              PngURL, JpgURL, BadBytesURL, NoCommaURL}

ReqField(t, v) ==
    [type |-> t, x |-> R(10), y |-> R(20), width |-> R(20), height |-> R(10),
     value |-> v,
     options |-> IF t = "radio" THEN DefaultOptions ELSE NullOptions]

\* a field whose x is off the page
OffPageField == [ReqField("text", Str(<< "option2" >>)) EXCEPT !.x = R(-5)]

\* a field that has no x
NoXField ==
    [type |-> "text", y |-> R(20), width |-> R(20), height |-> R(10),
     value |-> Str(<< "option2" >>), options |-> NullOptions]

\* radio fields: unset, each key of the default list, keys outside it, a
\* string that is no key; no options, the default list, a shorter list, a
\* list with an empty label
RadioValues ==
    {NullValue, Str(<< "" >>), Str(<< "option1" >>), Str(<< "option2" >>),
     Str(<< "option3" >>), Str(<< "option9" >>), Str(<< "option0" >>), NoCommaURL}

RadioOptionLists ==
    {NullOptions, DefaultOptions,
     [isNull |-> FALSE, items |-> << "Yes", "No" >>],
     [isNull |-> FALSE, items |-> << "Yes", "" >>]}

RadioFields ==
    {[ReqField("radio", v) EXCEPT !.options = o] :
        v \in RadioValues, o \in RadioOptionLists}

\* fields whose value is the number 2 instead of a string
NumberFields == {ReqField(t, NumValue(2)) : t \in {"radio", "signature"}}

ReqFields == {ReqField(t, v) : t \in FieldTypes, v \in ReqValues}

SeqsUpTo(S, n) == UNION {[1..m -> S] : m \in 0..n}

Requests ==
    {[documentId |-> "doc1", fields |-> fs] : fs \in SeqsUpTo(ReqFields, MaxReqFields)}
    \cup {[documentId |-> d, fields |-> << f >>] :
             d \in {Null, "doc9"}, f \in {ReqField("text", Str(<< "option2" >>))}}
    \cup {[documentId |-> "doc1", fields |-> << f >>] :
             f \in {OffPageField, NoXField} \cup NumberFields \cup RadioFields}
    \cup {[documentId |-> "doc1", fields |-> << ReqField("text", PngURL), f >>] :
             f \in {OffPageField} \cup NumberFields}

InitRender ==
    /\ IdleFront
    /\ IdlePure
    /\ req \in Requests
    /\ pc = "start"
    /\ idx = 0
    /\ draws = << >>
    /\ res = NoResponse
    /\ IdleStore

NextRender ==
    \/ SignValidate
    \/ SignFind
    \/ SignField
    \/ SignSave

SpecRender == InitRender /\ [][NextRender]_vars

(***************************************************************************)
(* Claims about the render pipeline.                                       *)
(***************************************************************************)
DrawsFor(i) == SelectSeq(draws, LAMBDA d : d.field = i)

\* the loop has gone past field i
Processed(i) == pc \in {"loop", "done"} /\ i \in 1..Len(req.fields) /\ i < idx

ImageTypes == {"signature", "image"}

\* a signature or image field whose value is set and cannot be decoded
BadImage(f) ==
    /\ f.type \in ImageTypes
    /\ ~Falsy(f.value)
    /\ f.value \notin {PngURL, JpgURL}

\* a field the pipeline has something to draw for
Drawable(f) ==
    \/ f.type \in {"text", "date"} /\ ~Falsy(f.value)
    \/ f.type = "radio"
    \/ f.type \in ImageTypes /\ f.value \in {PngURL, JpgURL}

\* C8: a request with a single field whose value is null draws a placeholder
\* string when the type is text and draws nothing when the type is signature.
C8_NullTextPlaceholder ==
    (/\ pc = "done" /\ res.status = 200
     /\ Len(req.fields) = 1 /\ req.fields[1].value.isNull) =>
        /\ req.fields[1].type = "text" =>
              \E n \in 1..Len(draws) :
                  draws[n].op = "drawText" /\ draws[n].text = << "Text Field" >>
        /\ req.fields[1].type = "signature" => draws = << >>

C10_BadImageSkipped ==
    (/\ pc = "done"
     /\ res.status \notin {400, 404}
     /\ \E i \in 1..Len(req.fields) : BadImage(req.fields[i])) =>
        /\ idx = Len(req.fields) + 1
        /\ \A i \in 1..Len(req.fields) :
              /\ BadImage(req.fields[i]) => DrawsFor(i) = << >>
              /\ Drawable(req.fields[i]) => DrawsFor(i) # << >>
        /\ (\A i \in 1..Len(req.fields) : req.fields[i].type \in KnownTypes) =>
              res = [status |-> 200, body |-> "pdf"]

\* an undecodable signature followed by a text field: the text is drawn and
\* the PDF is sent
C10_Witness ==
    /\ pc = "done"
    /\ res = [status |-> 200, body |-> "pdf"]
    /\ Len(req.fields) = 2
    /\ req.fields[1].type = "signature" /\ req.fields[1].value = BadBytesURL
    /\ req.fields[2].type = "text" /\ req.fields[2].value = Str(<< "option2" >>)
    /\ DrawsFor(1) = << >>
    /\ Len(DrawsFor(2)) = 1

\* C11: a request that names an existing document and has a non-empty field
\* list is never failed as a whole: whatever its fields hold, it is answered
\* with the signed PDF.
C11_FieldContentNeverFails ==
    (/\ pc = "done"
     /\ req.documentId # Null /\ DocumentExists(req.documentId)
     /\ Len(req.fields) > 0) =>
        res = [status |-> 200, body |-> "pdf"]

\* C23: a field of a type outside the five known ones gets the generic
\* 20 x 10 footprint on create, and a request that passes validation and
\* whose fields all hold a string or nothing is answered with the signed PDF
\* even when one of its fields has such a type.
C23_UnknownTypeSucceeds ==
    /\ \A t \in FieldTypes \ KnownTypes :
           fieldSizes(t) = [width |-> 20, height |-> 10]
    /\ (/\ pc = "done"
        /\ res.status \notin {400, 404}
        /\ \A i \in 1..Len(req.fields) :
               req.fields[i].value.isNull \/ IsString(req.fields[i].value)
        /\ \E i \in 1..Len(req.fields) : req.fields[i].type \notin KnownTypes) =>
           res = [status |-> 200, body |-> "pdf"]

\* the number N of a value key 'optionN', 0 when the value is no such key
OptionNumber(v) ==
    IF v.isNull \/ ~IsString(v) THEN 0
    ELSE CASE v.parts = << "option0" >> -> 0
           [] v.parts = << "option1" >> -> 1
           [] v.parts = << "option2" >> -> 2
           [] v.parts = << "option3" >> -> 3
           [] v.parts = << "option9" >> -> 9
           [] OTHER -> 0

\* the options list a radio field is drawn with
OptionsOf(f) == IF f.options.isNull THEN DefaultOptions.items ELSE f.options.items

\* the draw calls of field i that have the given op and style
DrawsLike(i, op, style) ==
    {n \in 1..Len(draws) :
        draws[n].field = i /\ draws[n].op = op /\ draws[n].style = style}

\* a radio field the loop has worked through without an error
RadioDrawn(i) ==
    /\ Processed(i)
    /\ req.fields[i].type = "radio"
    /\ req.fields[i].value.isNull \/ IsString(req.fields[i].value)

MaxSetFields == 2

\* fields as handleDrop makes them, at three clock readings
SetFields ==
    {handleDrop(e, t, ContainerRect, clock) :
        e \in {Point(20, 10), Point(120, 60)}, t \in {"text", "radio"},
        clock \in 0..2}

InitDelete ==
    /\ IdleFront
    /\ IdleBack
    /\ pin \in {[kind |-> "delete", fs |-> fs, id |-> id] :
                   fs \in SeqsUpTo(SetFields, MaxSetFields), id \in 0..3}
    /\ pout = NoArg

DeleteTwice ==
    /\ pin.kind = "delete"
    /\ pout = NoArg
    /\ pout' = [kind |-> "delete",
                once |-> deleteField(pin.fs, pin.id),
                twice |-> deleteField(deleteField(pin.fs, pin.id), pin.id)]
    /\ UNCHANGED <<frontVars, pin, backVars>>

SpecDelete == InitDelete /\ [][DeleteTwice]_vars

\* C12: deleteField with an id that no field of the set has returns the set
\* unchanged (same fields, same order, same attribute values), and deleting
\* the same id a second time gives what deleting it once gave.
C12_DeleteAbsentNoOp ==
    pout.kind = "delete" =>
        /\ (\A i \in 1..Len(pin.fs) : pin.fs[i].id # pin.id) => pout.once = pin.fs
        /\ pout.twice = pout.once

\* two fields with ids 0 and 1, id 3 deleted once and twice: nothing removed
C12_Witness ==
    /\ pout.kind = "delete"
    /\ Len(pin.fs) = 2
    /\ pin.fs[1].id = 0 /\ pin.fs[2].id = 1
    /\ pin.id = 3
    /\ pout.once = pin.fs
    /\ pout.twice = pin.fs

(***************************************************************************)
(* Placement on two containers that differ by one scale factor: handleDrop *)
(* and handleMouseMove applied to the same gesture on ContainerRect and on *)
(* the container, pointer and grab offset scaled by k.                     *)
(***************************************************************************)
MaxScale == 3

\* getBoundingClientRect() of a container k times as large, k times as far
\* from the viewport's corner
ScaleRect(rect, k) ==
    [left |-> rect.left * k, top |-> rect.top * k,
     width |-> rect.width * k, height |-> rect.height * k]

\* the same pointer position on the scaled page
ScalePoint(e, k) == Point(e.clientX * k, e.clientY * k)

\* the same grab offset on the scaled field
ScaleOffset(d, k) == [x |-> d.x * k, y |-> d.y * k]

\* pointer positions on and off the container, on and off whole percents
ScalePointers ==
    {Point(px, py) : px \in {0, 53, 120, 215}, py \in {0, 37, 60, 105}}

\* what handleMouseMove reads of its render: dragStart and the field's size
DragClosure(fs, dragStart) ==
    Closure("drag", Key(fs, 1), fs,
            << [InitialUi(fs[1]) EXCEPT !.isDragging = TRUE,
                                        !.dragStart = dragStart] >>)

InitScale ==
    /\ IdleFront
    /\ IdleBack
    /\ pin \in {[kind |-> "scale", e |-> e, dragStart |-> d, type |-> t, k |-> k] :
                   e \in ScalePointers, d \in GrabOffsets, t \in FieldTypes,
                   k \in 1..MaxScale}
    /\ pout = NoArg

Rescale ==
    /\ pin.kind = "scale"
    /\ pout = NoArg
    /\ LET rect == ScaleRect(ContainerRect, pin.k)
           e == ScalePoint(pin.e, pin.k)
           d == ScaleOffset(pin.dragStart, pin.k)
           base == handleDrop(pin.e, pin.type, ContainerRect, 0)
           scaled == handleDrop(e, pin.type, rect, 0)
       IN  pout' = [kind |-> "scaled",
                    create |-> << base, scaled >>,
                    drag |-> << handleMouseMove(DragClosure(<< base >>, pin.dragStart),
                                                pin.e, ContainerRect),
                                handleMouseMove(DragClosure(<< scaled >>, d),
                                                e, rect) >>]
    /\ UNCHANGED <<frontVars, pin, backVars>>

SpecScale == InitScale /\ [][Rescale]_vars

\* C22: create and continueDrag give the same percentage x, y on two
\* containers whose pointer position, grab offset, origin and size differ by
\* one common factor.
C22_ScaleIndependent ==
    pout.kind = "scaled" =>
        /\ pout.create[1].x = pout.create[2].x
        /\ pout.create[1].y = pout.create[2].y
        /\ pout.drag[1] = pout.drag[2]

\* a gesture on a container three times as large that lands the field
\* strictly inside it, off a whole percent in pixels
C22_Witness ==
    /\ pout.kind = "scaled"
    /\ pin.k = 3
    /\ pin.e = Point(53, 37)
    /\ pin.dragStart = [x |-> 10, y |-> 2]
    /\ pout.create[2].x = 16 /\ pout.create[2].y = 27
    /\ pout.drag[2] = [x |-> 11, y |-> 25]

(***************************************************************************)
(* handleMouseMove called once and again on the re-rendered field, and     *)
(* once on the same field at another position.                             *)
(***************************************************************************)
\* positions a field can be at when the move arrives
DragPositions == {[x |-> 0, y |-> 0], [x |-> 50, y |-> 50], [x |-> 80, y |-> 90]}

\* the set holding the field of the given type at the given position
FieldSetAt(t, p) ==
    << [handleDrop(Point(20, 10), t, ContainerRect, 0)
           EXCEPT !.x = p.x, !.y = p.y] >>

\* one mousemove on the field set fs: the listener of the latest render
\* computes the position, onUpdate writes it
DragOnce(fs, dragStart, e) ==
    updateField(fs, fs[1].id,
                handleMouseMove(DragClosure(fs, dragStart), e, ContainerRect))

InitDragTwice ==
    /\ IdleFront
    /\ IdleBack
    /\ pin \in {[kind |-> "drag", type |-> t, at |-> p, other |-> q,
                 dragStart |-> d, e |-> e] :
                   t \in KnownTypes, p \in DragPositions, q \in DragPositions,
                   d \in GrabOffsets, e \in ScalePointers}
    /\ pout = NoArg

DragTwice ==
    /\ pin.kind = "drag"
    /\ pout = NoArg
    /\ LET once == DragOnce(FieldSetAt(pin.type, pin.at), pin.dragStart, pin.e)
       IN  pout' = [kind |-> "dragged",
                    once |-> once,
                    twice |-> DragOnce(once, pin.dragStart, pin.e),
                    other |-> DragOnce(FieldSetAt(pin.type, pin.other),
                                       pin.dragStart, pin.e)]
    /\ UNCHANGED <<frontVars, pin, backVars>>

SpecDragTwice == InitDragTwice /\ [][DragTwice]_vars

\* C24: with the same pointer position, grab offset, container and field
\* size, handleMouseMove called twice writes the x, y it writes when called
\* once, and writes them whatever x, y the field has before the call.
C24_DragIdempotent ==
    pout.kind = "dragged" =>
        /\ pout.twice = pout.once
        /\ pout.other[1].x = pout.once[1].x
        /\ pout.other[1].y = pout.once[1].y

\* a move that lands a text field strictly inside the container, from two
\* different positions
C24_Witness ==
    /\ pout.kind = "dragged"
    /\ pin.at = [x |-> 80, y |-> 90] /\ pin.other = [x |-> 0, y |-> 0]
    /\ pin.e = Point(53, 37) /\ pin.dragStart = [x |-> 10, y |-> 2]
    /\ pout.once[1].x = 11 /\ pout.once[1].y = 25
    /\ pout.twice[1].x = 11 /\ pout.twice[1].y = 25

(***************************************************************************)
(* The field sets the editor can hand to POST /sign-pdf: drops at pointer  *)
(* positions on and off the container, then drags and resizes.             *)
(***************************************************************************)
\* the drop positions of DropPoints and one left of and above the container
PlaceDropPoints == DropPoints \cup {Point(0, 0)}

PlaceDrop == DropOf(MaxFields, KnownTypes, PlaceDropPoints)

NextPlace ==
    \/ PlaceDrop
    \/ MouseDown
    \/ ResizeDown
    \/ MouseMove
    \/ MouseUp

SpecPlace == Init /\ [][NextPlace]_vars

\* the geometry of a field as the request body carries it
RequestGeometry(f) ==
    [x |-> R(f.x), y |-> R(f.y), width |-> R(f.width), height |-> R(f.height)]

\* C30: every field of every field set the editor reaches by drops, drags
\* and resizes satisfies validateFieldCoordinates, so a request made of the
\* set is never answered 400 'Invalid coordinates'.
C30_EditorFieldsValid ==
    \A i \in 1..Len(fields) : validateFieldCoordinates(RequestGeometry(fields[i]))

(***************************************************************************)
(* Changing the document: 'Upload New PDF' and the upload that follows,    *)
(* with image file reads in flight.                                        *)
(***************************************************************************)
\* setFields([]) of a document change
ClearCall == [op |-> "clear", key |-> <<0, 0>>, keys |-> {}]

\* the ids of the fields of a set
IdsOf(fs) == {fs[i].id : i \in 1..Len(fs)}

\* App.handleUploadNew, confirmed: setPdfData(null), setDocumentId(null),
\* setFields([]); the viewer and its fields leave the page
UploadNew ==
    /\ ViewerTakesEvents
    /\ documentId' = NoDocument
    /\ cleared' = cleared \cup IdsOf(fields)
    /\ RenderSet(<< >>, << >>, ClearCall)
    /\ UNCHANGED <<now, modal, readers>>

\* PDFUpload -> App.handleUploadSuccess: setPdfData(data),
\* setDocumentId(data.documentId), setFields([]).  The upload is a round
\* trip to the server, so the clock has moved on; documents are numbered by
\* the clock reading of their upload.
UploadSuccess ==
    /\ documentId = NoDocument
    /\ now < MaxNow
    /\ now' = now + 1
    /\ documentId' = now' + 1
    /\ cleared' = cleared \cup IdsOf(fields)
    /\ RenderSet(<< >>, << >>, ClearCall)
    /\ UNCHANGED <<modal, readers>>

UploadDrop == DropOf(MaxFields, {"image", "text"}, DropPoints)

NextUpload ==
    \/ UploadDrop
    \/ ImageUpload
    \/ ImageLoaded
    \/ Delete
    \/ UploadNew
    \/ UploadSuccess

SpecUpload == Init /\ [][NextUpload]_vars

\* C25: in every reachable state the field set holds no field that was
\* created under a previous document, also when an image file read is
\* pending while the document changes.
C25_NoFieldOfPreviousDocument ==
    \A i \in 1..Len(fields) : fields[i].id \notin cleared

(***************************************************************************)
(* POST /sign-pdf from the end of the render loop on, for several requests *)
(* in flight at once: each await is a point where another request runs.    *)
(***************************************************************************)
MaxJobs == 2

SignDocs == {"doc1", "doc2"}

\* what the requests draw: two different field sets
Contents == {"a", "b"}

\* pdfDoc.save(): the bytes of the document with the request's fields drawn
signedBytes(doc, content) == << "pdf", doc, content >>

\* hashUtils.calculateHash: SHA-256, taken as collision free
calculateHash(buffer) == << "sha256" >> \o buffer

\* `signed-${Date.now()}.pdf`
signedName(clock) == << "signed", clock >>

\* `/uploads/${signedPdfFilename}`, and the file path.join finds for it
signedUrl(name) == << "/uploads" >> \o name
FileOfUrl(url) == Tail(url)

InitSign ==
    /\ IdleFront
    /\ IdlePure
    /\ req = NoRequest /\ pc = "idle" /\ idx = 0 /\ draws = << >> /\ res = NoResponse
    /\ jobs \in [1..MaxJobs -> {[doc |-> d, content |-> c, pc |-> "rendered",
                                 bytes |-> << >>, hash |-> << >>, name |-> << >>] :
                                   d \in SignDocs, c \in Contents}]
    /\ files = NoFiles
    /\ db = [d \in SignDocs |-> Unsigned]

\* pdfDoc.save() resolves: the hash and the file name are computed and
\* fs.writeFile is started
SignHash(r) ==
    /\ jobs[r].pc = "rendered"
    /\ LET signedPdfBytes == signedBytes(jobs[r].doc, jobs[r].content)
       IN  jobs' = [jobs EXCEPT ![r].pc = "writing",
                                ![r].bytes = signedPdfBytes,
                                ![r].hash = calculateHash(signedPdfBytes),
                                ![r].name = signedName(now)]
    /\ UNCHANGED <<frontVars, pureVars, renderVars, files, db>>

\* fs.writeFile resolves: the file holds the request's bytes; the document
\* object is updated and document.save() is started
SignWrite(r) ==
    /\ jobs[r].pc = "writing"
    /\ files' = [n \in DOMAIN files \cup {jobs[r].name} |->
                    IF n = jobs[r].name THEN jobs[r].bytes ELSE files[n]]
    /\ jobs' = [jobs EXCEPT ![r].pc = "saving"]
    /\ UNCHANGED <<frontVars, pureVars, renderVars, db>>

\* document.save() resolves: the collection holds the request's hash and
\* url; the signed PDF is sent
SignPersist(r) ==
    /\ jobs[r].pc = "saving"
    /\ db' = [db EXCEPT ![jobs[r].doc] =
                 [signedPdfHash |-> jobs[r].hash,
                  signedPdfUrl |-> signedUrl(jobs[r].name)]]
    /\ jobs' = [jobs EXCEPT ![r].pc = "done"]
    /\ UNCHANGED <<frontVars, pureVars, renderVars, files>>

\* GET /verify/:id: signedVerified (null, here FALSE, for a document that
\* has no signedPdfUrl)
signedVerified(d) ==
    IF db[d].signedPdfUrl = << >> THEN FALSE
    ELSE calculateHash(files[FileOfUrl(db[d].signedPdfUrl)]) = db[d].signedPdfHash

Hash == \E r \in 1..Len(jobs) : SignHash(r)
Write == \E r \in 1..Len(jobs) : SignWrite(r)
Persist == \E r \in 1..Len(jobs) : SignPersist(r)

NextSign ==
    \/ Tick
    \/ Hash
    \/ Write
    \/ Persist

SpecSign == InitSign /\ [][NextSign]_vars

\* C28: once every request in flight has been answered, every document that
\* has a signedPdfUrl has the hash of the file stored at that url as its
\* signedPdfHash, so GET /verify/:id reports its signed PDF as verified.
C28_SignedHashMatchesFile ==
    (\A r \in 1..Len(jobs) : jobs[r].pc = "done") =>
        \A d \in DOMAIN db :
            db[d].signedPdfUrl # << >> => signedVerified(d)

=============================================================================
